---- MODULE Spec2Model ----
(***************************************************************************)
(* A model of snapshot.py: the two cached Flask views get_src and get_bin, *)
(* the helpers they call (download, get_file_info, get_repo_files) and the  *)
(* flask_caching SimpleCache both decorators share.                         *)
(*                                                                          *)
(* Strings the code takes apart (names, versions, paths, urls) are          *)
(* sequences of pieces; a piece is never split by any operation of the      *)
(* code, and the piece "/" is the only one that starts with a slash.        *)
(* Python dicts are records that carry the set of keys they hold.           *)
(***************************************************************************)
EXTENDS Integers, Sequences, FiniteSets, TLC

VARIABLES now, ticks, upstream, route, md5sum, cache, req, served,
          clock, last_request, dl, calls, failures, cuts

\* the state of download: the clock it reads, its global last_request, its
\* locals in each thread, and the numbers of calls made, of attempts that
\* failed and were retried, and of transfers that ended early
netvars == <<clock, last_request, dl, calls, failures, cuts>>

\* the state of the server
appvars == <<now, ticks, upstream, route, md5sum, cache, req, served>>

vars == <<now, ticks, upstream, route, md5sum, cache, req, served,
          clock, last_request, dl, calls, failures, cuts>>

----------------------------------------------------------------------------
(* Bounds of the model *)

\* number of request-handling threads of the server
NumThreads == 2
\* number of requests the server gets
MaxRequests == 2
\* number of times the clock is advanced
MaxTicks == 1
\* number of calls of download
MaxCalls == 2
\* number of attempts of download that fail and are retried
MaxFailures == 10
\* number of transfers of download that end early
MaxCuts == 2

Threads == 1..NumThreads

----------------------------------------------------------------------------
(* Program constants *)

\* @cache.cached(timeout=86400) on both views
VIEW_TIMEOUT == 86400
\* @cache.cached(timeout=300, key_prefix='all_files') on get_repo_files
FILES_TIMEOUT == 300

\* base_url of get_bin
base_url == <<"https://deb.qubes-os.org/">>

----------------------------------------------------------------------------
(* String helpers (str.startswith, str.endswith, str.split, str.replace,   *)
(* os.path.basename) on sequences of pieces                                 *)

startswith(s, p) == Len(s) >= Len(p) /\ SubSeq(s, 1, Len(p)) = p

endswith(s, p) == Len(s) >= Len(p) /\ SubSeq(s, Len(s) - Len(p) + 1, Len(s)) = p

\* s.split(sep)[0]: what precedes the first separator, all of s without one
RECURSIVE split0(_, _)
split0(s, sep) ==
    IF s = <<>> \/ Head(s) = sep THEN <<>>
    ELSE <<Head(s)>> \o split0(Tail(s), sep)

\* s.replace(old, new): every non-overlapping occurrence, left to right
RECURSIVE replace(_, _, _)
replace(s, old, new) ==
    IF Len(s) < Len(old) \/ old = <<>> THEN s
    ELSE IF SubSeq(s, 1, Len(old)) = old
         THEN new \o replace(SubSeq(s, Len(old) + 1, Len(s)), old, new)
         ELSE <<Head(s)>> \o replace(Tail(s), old, new)

\* os.path.basename(f): what follows the last "/"
RECURSIVE basename(_)
basename(f) ==
    IF \E i \in 1..Len(f) : f[i] = "/" THEN basename(Tail(f)) ELSE f

----------------------------------------------------------------------------
(* The requests: one package, asked for as a source or as a binary package *)

\* "libfoo": the pieces are letters as far as name[0:4] reaches
PkgNames == { <<"l", "i", "b", "f", "oo">> }
\* "1.2-1"
PkgVersions == { <<"1.2", "-", "1">> }

\* the route of the request, which is the key of the view cache (request.path)
Queries == [kind : {"src", "bin"}, name : PkgNames, ver : PkgVersions]

\* content hashes (md5 hex digests) the mirror's files may have
Hashes == {"h1", "h2", "h3"}

\* the md5 of the package's files on the mirror, by the role they play:
\* all different, all the same, and two ways of two files sharing their
\* content for the source files; different and the same for the debs
Content(dsc, native, debian, orig, amd64, all) ==
    [dsc |-> dsc, native |-> native, debian |-> debian, orig |-> orig,
     amd64 |-> amd64, all |-> all]

SrcContents ==
    { Content("h1", "h2", "h2", "h3", "h1", "h1"),
      Content("h1", "h1", "h1", "h1", "h1", "h1"),
      Content("h1", "h2", "h2", "h1", "h1", "h1"),
      Content("h1", "h1", "h2", "h2", "h1", "h1") }

BinContents ==
    { Content("h1", "h1", "h1", "h1", "h1", "h2"),
      Content("h1", "h1", "h1", "h1", "h1", "h1") }

Contents == SrcContents \cup BinContents

----------------------------------------------------------------------------
(* get_response and get_file_info *)

\* retries = 5 in get_response
RETRIES == 5

\* what requests.get does for one url: `fails` ConnectionErrors, then (when
\* a further try is made) a response with a status, a body whose md5 is
\* `md5`, and a last-modified header: a date, garbage, or none at all
HttpResponse(status, md5, lm) ==
    [status_code |-> status, md5 |-> md5, last_modified |-> lm]

Server(fails, resp) == [fails |-> fails, resp |-> resp]

NoHttpResponse == HttpResponse(0, "", "none")

\* what may happen to the fetch of a file whose content has the md5 h
FetchOutcomes(h) ==
    {Server(RETRIES, NoHttpResponse)}
      \cup {Server(n, HttpResponse(200, h, "date")) : n \in {0, RETRIES - 1}}
      \cup {Server(0, HttpResponse(404, "", "none"))}
      \cup {Server(0, HttpResponse(200, h, lm)) : lm \in {"none", "garbage"}}

\* get_response: [error |-> TRUE] stands for requests' ConnectionError
RECURSIVE get_response_loop(_, _, _)
get_response_loop(server, retries, failed) ==
    IF retries = 0 THEN [error |-> TRUE, resp |-> NoHttpResponse]
    ELSE IF failed < server.fails
         THEN get_response_loop(server, retries - 1, failed + 1)
         ELSE [error |-> FALSE, resp |-> server.resp]

get_response(server) == get_response_loop(server, RETRIES, 0)

\* requests' Response.ok: no 4xx or 5xx status
ok(resp) == resp.status_code < 400

\* parsedate(...).strftime("%Y%m%dT%H%M%SZ"): defined for a date only
strftime(lm) == IF lm = "date" THEN "20200101T000000Z" ELSE ""

\* the dict get_file_info fills: `keys` is the set of keys it holds
EmptyDict ==
    [keys |-> {}, status_code |-> 0, hash |-> "", first_seen |-> "",
     size |-> 0, file |-> <<>>]

\* [raised |-> TRUE]: the KeyError (no header) or ParserError (garbage) that
\* line 187 lets through; a ConnectionError is caught and leaves info = {}
get_file_info(server) ==
    LET got == get_response(server)
        resp == got.resp
    IN  IF got.error THEN [raised |-> FALSE, info |-> EmptyDict]
        ELSE IF ~ok(resp)
        THEN [raised |-> FALSE,
              info |-> [EmptyDict EXCEPT !.keys = {"status_code"},
                                         !.status_code = resp.status_code]]
        ELSE IF resp.last_modified # "date"
        THEN [raised |-> TRUE, info |-> EmptyDict]
        ELSE [raised |-> FALSE,
              info |-> [EmptyDict EXCEPT
                           !.keys = {"status_code", "hash", "first_seen", "size"},
                           !.status_code = resp.status_code,
                           !.hash = resp.md5,
                           !.first_seen = strftime(resp.last_modified),
                           !.size = 1]]

\* d.get(k): whether the value is there and truthy (no stored value is falsy)
get(d, k) == k \in d.keys


----------------------------------------------------------------------------
(* What a view hands to flask.Response *)

\* api_result is {} at first, then the bytes download returned, then the
\* str json.dumps made of the envelope (json.dumps is one-to-one)
Dict == [tag |-> "dict", bytes |-> <<>>, env |-> <<>>]
Bytes(b) == [tag |-> "bytes", bytes |-> b, env |-> <<>>]
dumps(e) == [tag |-> "str", bytes |-> <<>>, env |-> <<e>>]

\* Python's truth value of api_result: {} and b"" are falsy
truthy(a) == a.bytes # <<>> \/ a.env # <<>>

\* flask.Response(api_result, status=status_code): an empty dict iterates to
\* an empty body, bytes and str are sent as they are
Response(api_result, status_code) ==
    [status |-> status_code,
     body |-> [bytes |-> api_result.bytes, env |-> api_result.env]]

\* no answer (yet, or ever: the view raised)
NoResponse == Response(Dict, 0)

\* one record of a fileinfo list
FileRecord(name, path, fi) ==
    [name |-> name, archive_name |-> "debian", path |-> path,
     first_seen |-> fi.first_seen, size |-> fi.size]

\* the fileinfo dict: a hash that is no key maps to the empty list
NoFileinfo == [h \in Hashes |-> <<>>]

\* a faulty d[k] = v that forgets the other keys of d
setitem_forgetful(d, k, v) == [h \in DOMAIN d |-> IF h = k THEN v ELSE <<>>]

setitem(d, k, v) == [d EXCEPT ![k] = v]
keys(d) == {h \in DOMAIN d : d[h] # <<>>}

----------------------------------------------------------------------------
(* download, as the views see it: lines 79-173 *)

\* the bytes snapshot.debian.org answers a known package with
Payload == <<"snapshot.debian.org fileinfo">>

\* download(url) ends by returning f.getvalue() (line 139) or by raising:
\* MyHTTP404Exception (line 117), "failed too often..." (line 173).  A 200
\* answer may carry no bytes at all.
NoDownload == [raised |-> FALSE, exc |-> "not called", value |-> <<>>]

download_outcomes(known) ==
    {[raised |-> TRUE, exc |-> "failed too often...", value |-> <<>>],
     [raised |-> FALSE, exc |-> "", value |-> <<>>]}
      \cup (IF known
            THEN {[raised |-> FALSE, exc |-> "", value |-> Payload]}
            ELSE {[raised |-> TRUE, exc |-> "got HTTP 404", value |-> <<>>]})

----------------------------------------------------------------------------
(* download, attempt by attempt: lines 79-173.  Time is counted in half     *)
(* seconds, so that seconds_per_request = 1.5 is a whole number.            *)

\* maxretries = 10
maxretries == 10
\* seconds_per_request = 1.5
seconds_per_request == 3
\* the 10 * 60 seconds after which progress() aborts a transfer
stall_window == 1200

\* the bytes of the resource, in chunks, and of the page a server error
\* comes with
Resource == <<"b1", "b2">>
ErrorPage == <<"e1", "e2">>

\* what c.perform() did: the pycurl error it raised if any, the response
\* code, the chunks written to f, the time it took
Attempt(err, code, wrote, took) ==
    [err |-> err, code |-> code, wrote |-> wrote, took |-> took]

\* the answer of a server that has the resource to a request resumed from
\* offset (RESUME_FROM, lines 112-113)
Answer(offset) ==
    IF offset = 0 THEN [code |-> 200, body |-> Resource]
    ELSE IF offset < Len(Resource)
    THEN [code |-> 206, body |-> SubSeq(Resource, offset + 1, Len(Resource))]
    ELSE [code |-> 416, body |-> ErrorPage]

\* a transfer that ends early: the connection is cut (E_PARTIAL_FILE) or
\* stalls until progress() aborts it (E_ABORTED_BY_CALLBACK)
Cuts(code, body) ==
    {Attempt("E_PARTIAL_FILE", code, SubSeq(body, 1, k), 0) :
        k \in 0..(Len(body) - 1)}
      \cup {Attempt("E_ABORTED_BY_CALLBACK", code, SubSeq(body, 1, 1),
                    stall_window + 1)}

\* what may happen to one attempt made with f.tell() = offset
Attempts(offset) ==
    {Attempt("E_COULDNT_CONNECT", 0, <<>>, 0),
     Attempt("E_COULDNT_RESOLVE_HOST", 0, <<>>, 0),
     Attempt("none", 404, ErrorPage, 0),
     Attempt("none", 503, ErrorPage, 0)}
      \cup {Attempt("none", Answer(offset).code, Answer(offset).body, took) :
              took \in {0, seconds_per_request}}
      \cup Cuts(Answer(offset).code, Answer(offset).body)
      \cup Cuts(503, ErrorPage)

\* the attempts download retries after (lines 142-146 and 118-121), and
\* those of them whose transfer ended early
retried(out) ==
    \/ out.err \in {"E_PARTIAL_FILE", "E_COULDNT_CONNECT",
                    "E_ABORTED_BY_CALLBACK"}
    \/ out.err = "none" /\ out.code \notin {200, 206, 404}
early(out) == out.err \in {"E_PARTIAL_FILE", "E_ABORTED_BY_CALLBACK"}

\* last_request = None, and last_request = time.time()
None == [set |-> FALSE, at |-> 0]
Time(t) == [set |-> TRUE, at |-> t]

\* download has not ended, returned (line 139), or raised
NoResult == [kind |-> "none", value |-> <<>>]
Returned(value) == [kind |-> "return", value |-> value]
Raised(exc) == [kind |-> exc, value |-> <<>>]

\* 4 ** k seconds
RECURSIVE pow4(_)
pow4(k) == IF k = 0 THEN 1 ELSE 4 * pow4(k - 1)

\* a faulty sleep_time that doubles
RECURSIVE backoff_doubling(_)
backoff_doubling(retrynum) ==
    IF retrynum = 0 THEN 2 * 4 ELSE 2 * backoff_doubling(retrynum - 1)

\* sleep_time = 4 ** (retrynum + 1), lines 153 and 167
backoff(retrynum) == 2 * pow4(retrynum + 1)

\* the locals of one call of download: retrynum, f, and where it stands
\* (in perform, in time.sleep until wake and then at next, at line 138, or
\* done).  The other fields record what the call did: the attempts made,
\* the backoff sleeps taken, whether the last attempt failed in a way that
\* is retried, whether an attempt was answered 404, when the last transfer
\* began and
\* what last_request was then, the pacing sleep, what last_request was at
\* the call and the time the call gave it, how the call ended
DlIdle ==
    [pc |-> "idle", retrynum |-> 0, f |-> <<>>, wake |-> 0, next |-> "idle",
     attempts |-> 0, sleeps |-> <<>>, failed |-> FALSE, got404 |-> FALSE, began |-> 0, seen |-> None, paced |-> 0,
     before |-> None, stamp |-> None, result |-> NoResult]

\* c.perform() at time t: what is written goes to f
performed(d, out, t, lr) ==
    [d EXCEPT !.f = @ \o out.wrote,
              !.attempts = @ + 1,
              !.failed = retried(out),
              !.got404 = @ \/ (out.err = "none" /\ out.code = 404),
              !.began = t,
              !.seen = lr]

\* an exception leaves download
raise(d, exc) == [d EXCEPT !.pc = "done", !.result = Raised(exc)]

\* lines 147-158 and 165-172: the last attempt breaks out of the loop to
\* line 173, any other sleeps and goes on; f is what the next attempt
\* starts with
retry(d, f, t) ==
    IF d.retrynum = maxretries - 1
    THEN raise(d, "failed too often...")
    ELSE [d EXCEPT !.pc = "sleep",
                   !.wake = t + backoff(d.retrynum),
                   !.next = "perform",
                   !.sleeps = Append(@, backoff(d.retrynum)),
                   !.retrynum = @ + 1,
                   !.f = f]

\* lines 132-137: the pacing sleep, then line 138
pace(d, t, lr) ==
    LET sleep_time == seconds_per_request - (t - lr.at)
    IN  IF lr.set /\ sleep_time > 0
        THEN [d EXCEPT !.pc = "sleep", !.wake = t + sleep_time,
                       !.next = "stamp", !.paced = sleep_time]
        ELSE [d EXCEPT !.pc = "stamp"]

\* a faulty download that takes a 404 for one more HTTP error
after_perform_retry404(d0, out, t0, lr) ==
    LET d == performed(d0, out, t0, lr)
        t == t0 + out.took
    IN  IF out.err \in {"E_PARTIAL_FILE", "E_COULDNT_CONNECT",
                         "E_ABORTED_BY_CALLBACK"}
        THEN [d |-> retry(d, d.f, t), clock |-> t, last_request |-> lr]
        ELSE IF out.err # "none"
        THEN [d |-> raise(d, "pycurl.error"), clock |-> t, last_request |-> lr]
        ELSE IF out.code \notin {200, 206}
        THEN [d |-> retry(d, <<>>, t), clock |-> t, last_request |-> lr]
        ELSE [d |-> pace(d, t, lr), clock |-> t, last_request |-> lr]

\* a faulty download that writes last_request before it raises for a 404
after_perform_stamp404(d0, out, t0, lr) ==
    LET d == performed(d0, out, t0, lr)
        t == t0 + out.took
    IN  IF out.err \in {"E_PARTIAL_FILE", "E_COULDNT_CONNECT",
                         "E_ABORTED_BY_CALLBACK"}
        THEN [d |-> retry(d, d.f, t), clock |-> t, last_request |-> lr]
        ELSE IF out.err # "none"
        THEN [d |-> raise(d, "pycurl.error"), clock |-> t, last_request |-> lr]
        ELSE IF out.code = 404
        THEN [d |-> raise(d, "MyHTTP404Exception"), clock |-> t,
              last_request |-> Time(t)]
        ELSE IF out.code \notin {200, 206}
        THEN [d |-> retry(d, <<>>, t), clock |-> t, last_request |-> lr]
        ELSE [d |-> pace(d, t, lr), clock |-> t, last_request |-> lr]

\* lines 115-172 for one attempt begun at t0 with last_request = lr: the
\* locals, the clock and last_request it leaves
after_perform(d0, out, t0, lr) ==
    LET d == performed(d0, out, t0, lr)
        t == t0 + out.took
    IN  IF out.err \in {"E_PARTIAL_FILE", "E_COULDNT_CONNECT",
                         "E_ABORTED_BY_CALLBACK"}
        THEN [d |-> retry(d, d.f, t), clock |-> t, last_request |-> lr]
        ELSE IF out.err # "none"
        THEN [d |-> raise(d, "pycurl.error"), clock |-> t, last_request |-> lr]
        ELSE IF out.code = 404
        THEN [d |-> raise(d, "MyHTTP404Exception"), clock |-> t,
              last_request |-> lr]
        ELSE IF out.code \notin {200, 206}
        THEN [d |-> retry(d, <<>>, t), clock |-> t, last_request |-> lr]
        ELSE [d |-> pace(d, t, lr), clock |-> t, last_request |-> lr]

----------------------------------------------------------------------------
(* get_src after the upstream probe: lines 235-342 *)

\* srcpkgname[0:4] if srcpkgname.startswith("lib") else srcpkgname[0]
prefix(name) ==
    IF startswith(name, <<"l", "i", "b">>) THEN SubSeq(name, 1, 4)
    ELSE SubSeq(name, 1, 1)

\* "pool/main/{prefix}/{srcpkgname}"
pool_path(name) ==
    <<"pool", "/", "main", "/">> \o prefix(name) \o <<"/">> \o name

\* the files dict of get_src; its keys are visited in the order of file_keys
file_keys == <<"dsc", "native", "debian", "orig">>

files(q) ==
    [dsc    |-> << q.name \o <<"_">> \o q.ver \o <<".dsc">> >>,
     native |-> << q.name \o <<"_">> \o q.ver \o <<".tar.xz">> >>,
     debian |-> << q.name \o <<"_">> \o q.ver \o <<".debian", ".tar.xz">> >>,
     orig   |-> [i \in 1..3 |->
                   q.name \o <<"_">> \o split0(q.ver, "-")
                          \o <<".orig", <<".tar.gz", ".tar.xz", ".tar.bz2">>[i]>>]]

\* the inner loop of lines 259-266 over the candidates of one key, the
\* server's answer to the i-th candidate being o[i]
RECURSIVE probe_files(_, _, _)
probe_files(cands, o, i) ==
    IF i > Len(cands)
    THEN [raised |-> FALSE, found |-> FALSE, res |-> EmptyDict, calls |-> i - 1]
    ELSE LET r == get_file_info(o[i])
         IN  IF r.raised
             THEN [raised |-> TRUE, found |-> FALSE, res |-> EmptyDict,
                   calls |-> i]
             ELSE IF get(r.info, "hash")
             THEN [raised |-> FALSE, found |-> TRUE,
                   res |-> [r.info EXCEPT !.keys = @ \cup {"file"},
                                          !.file = cands[i]],
                   calls |-> i]
             ELSE probe_files(cands, o, i + 1)

\* every way the inner loop can end for a list of candidates, the files
\* having the md5 h
ProbeResults(cands, h) ==
    {probe_files(cands, o, 1) : o \in [1..Len(cands) -> FetchOutcomes(h)]}

\* info = {"dsc": {}, "debian": {}, "orig": {}}: no "native" key
info_init ==
    [keys |-> {"dsc", "debian", "orig"},
     val |-> [k \in {"dsc", "native", "debian", "orig"} |-> EmptyDict]]

\* one turn of the outer loop of line 258: a raise ends the request, a find
\* is stored under the key
probe_key(loop, key, r) ==
    IF loop.raised THEN loop
    ELSE [raised |-> r.raised,
          info |-> IF r.found
                   THEN [keys |-> loop.info.keys \cup {key},
                         val |-> [loop.info.val EXCEPT ![key] = r.res]]
                   ELSE loop.info,
          calls |-> loop.calls + r.calls]

\* every way the loops of lines 258-266 can end
SrcProbes(q, md5) ==
    LET start == [raised |-> FALSE, info |-> info_init, calls |-> 0]
    IN  {probe_key(probe_key(probe_key(probe_key(start,
             "dsc", d), "native", n), "debian", b), "orig", g) :
           d \in ProbeResults(files(q).dsc, md5.dsc),
           n \in ProbeResults(files(q).native, md5.native),
           b \in ProbeResults(files(q).debian, md5.debian),
           g \in ProbeResults(files(q).orig, md5.orig)}

\* the envelope of lines 272-310
src_envelope3(q, info) ==
    LET path == <<"/">> \o pool_path(q.name)
        v == info.val
    IN  [package |-> q.name, version |-> q.ver, comment |-> "foo",
         result |-> << [hash |-> v.dsc.hash], [hash |-> v.debian.hash],
                       [hash |-> v.orig.hash] >>,
         fileinfo |->
            setitem(setitem(setitem(NoFileinfo,
                v.dsc.hash, << FileRecord(v.dsc.file, path, v.dsc) >>),
                v.orig.hash, << FileRecord(v.orig.file, path, v.orig) >>),
                v.debian.hash, << FileRecord(v.debian.file, path, v.debian) >>)]

\* a faulty envelope of lines 313-341 that lists the tarball first
src_envelope2_swapped(q, info) ==
    LET path == <<"/">> \o pool_path(q.name)
        v == info.val
    IN  [package |-> q.name, version |-> q.ver, comment |-> "foo",
         result |-> << [hash |-> v.native.hash], [hash |-> v.dsc.hash] >>,
         fileinfo |->
            setitem(setitem(NoFileinfo,
                v.dsc.hash, << FileRecord(v.dsc.file, path, v.dsc) >>),
                v.native.hash, << FileRecord(v.native.file, path, v.native) >>)]

\* the envelope of lines 313-341
src_envelope2(q, info) ==
    LET path == <<"/">> \o pool_path(q.name)
        v == info.val
    IN  [package |-> q.name, version |-> q.ver, comment |-> "foo",
         result |-> << [hash |-> v.dsc.hash], [hash |-> v.native.hash] >>,
         fileinfo |->
            setitem(setitem(NoFileinfo,
                v.dsc.hash, << FileRecord(v.dsc.file, path, v.dsc) >>),
                v.native.hash, << FileRecord(v.native.file, path, v.native) >>)]

\* lines 268-342 on the info the loops left; raised stands for the KeyError
\* of info["native"] at line 311
src_assemble(q, api_result, status_code, info) ==
    IF get(info.val.dsc, "hash")
    THEN IF get(info.val.debian, "hash") /\ get(info.val.orig, "hash")
         THEN [raised |-> FALSE,
               status_code |-> info.val.dsc.status_code,
               api_result |-> dumps(src_envelope3(q, info))]
         ELSE IF "native" \notin info.keys
         THEN [raised |-> TRUE, status_code |-> status_code,
               api_result |-> api_result]
         ELSE [raised |-> FALSE,
               status_code |-> info.val.dsc.status_code,
               api_result |-> dumps(src_envelope2(q, info))]
    ELSE [raised |-> FALSE, status_code |-> status_code,
          api_result |-> api_result]


\* how a view ended: by raising or with a response, after so many calls of
\* get_file_info and get_repo_files; found is the set of keys of info (of
\* data, in get_bin) that got a populated record, aborted tells that it
\* was get_file_info or get_repo_files that raised
Ending(raised, resp, mirror, found, aborted) ==
    [raised |-> raised, resp |-> resp, mirror |-> mirror, found |-> found,
     aborted |-> aborted]

\* lines 236-345 for one way the loops can end: how the view ends
src_fallback(q, api_result, status_code, loop) ==
    LET a == src_assemble(q, api_result, status_code, loop.info)
        found == {k \in loop.info.keys : get(loop.info.val[k], "hash")}
    IN  IF loop.raised \/ a.raised
        THEN Ending(TRUE, NoResponse, loop.calls, found, loop.raised)
        ELSE Ending(FALSE, Response(a.api_result, a.status_code),
                    loop.calls, found, FALSE)

\* lines 223-235: what the upstream probe leaves in api_result, status_code
upstream_probe(out) ==
    IF out.raised THEN [api_result |-> Dict, status_code |-> 404]
    ELSE [api_result |-> Bytes(out.value), status_code |-> 200]

\* get_src, lines 223-345: every way the view can end for a package the
\* upstream service knows or not, the mirror's files having the md5s given,
\* each with the outcome of download it follows from
get_src(q, md5, known) ==
    UNION {LET up == upstream_probe(out)
           IN  IF truthy(up.api_result)
               THEN {[out |-> out,
                      end |-> Ending(FALSE,
                                     Response(up.api_result, up.status_code),
                                     0, {}, FALSE)]}
               ELSE {[out |-> out,
                      end |-> src_fallback(q, up.api_result, up.status_code,
                                           loop)] :
                       loop \in SrcProbes(q, md5)} :
           out \in download_outcomes(known)}

get_src_table ==
    [q \in {x \in Queries : x.kind = "src"} |->
       [md5 \in Contents |-> [known \in BOOLEAN |-> get_src(q, md5, known)]]]

----------------------------------------------------------------------------
(* get_repo_files: lines 199-216 *)

\* the mirror's directory of the package, below a release and a repository
mirror_dir(release, repo, name) ==
    <<release, "/", repo, "/">> \o pool_path(name) \o <<"/">>

\* "%s_%s_%s.deb" % (pkg_name, pkg_ver, arch)
deb_name(q, arch) == q.name \o <<"_">> \o q.ver \o <<"_", arch, ".deb">>

\* outputs of rsync --list-only: the last field of each line, <<>> for a
\* line without fields (all there is when rsync prints nothing)
RsyncOutputs(q) ==
    LET amd64 == deb_name(q, "amd64")
        all == deb_name(q, "all")
        vm == mirror_dir("r4.1", "vm", q.name)
        dom0 == mirror_dir("r4.1", "dom0", q.name)
        old == mirror_dir("r4.0", "vm", q.name)
        other == <<"r4.1", "/", "vm", "/", "dists", "/", "Release">>
    IN  { << <<>> >>,
          << old \o all, other, vm \o amd64 >>,
          << old \o amd64, dom0 \o amd64, other, vm \o amd64, vm \o all >> }

is_package_file(path) ==
    \/ endswith(path, <<".deb">>)
    \/ endswith(path, <<".dsc">>)
    \/ endswith(path, <<".tar.xz">>)
    \/ endswith(path, <<".tar.bz2">>)
    \/ endswith(path, <<".tar.gz">>)

\* the loop of lines 205-215; raised stands for the IndexError of line[-1]
RECURSIVE repo_files_loop(_, _)
repo_files_loop(lines, acc) ==
    IF lines = <<>> THEN [raised |-> FALSE, files |-> acc]
    ELSE LET line == Head(lines)
         IN  IF line = <<>> THEN [raised |-> TRUE, files |-> <<>>]
             ELSE IF ~startswith(line, <<"r4.1">>)
             THEN repo_files_loop(Tail(lines), acc)
             ELSE IF is_package_file(line)
             THEN repo_files_loop(Tail(lines), Append(acc, line))
             ELSE repo_files_loop(Tail(lines), acc)

----------------------------------------------------------------------------
(* get_bin after the upstream probe: lines 363-408 *)

archs == <<"amd64", "all">>

\* data = {}: the architectures in the order they were inserted
NoArch == [info |-> EmptyDict, file |-> <<>>, url |-> <<>>]
data_init == [order |-> <<>>, val |-> [a \in {"amd64", "all"} |-> NoArch]]

\* the listing entries line 372 lets through
matching(listing, deb) == SelectSeq(listing, LAMBDA f : basename(f) = deb)

\* the loop of lines 371-380 for one architecture over the entries whose
\* basename is deb, the server's answer for the i-th of them being o[i];
\* info is the variable of get_bin that line 374 assigns
RECURSIVE probe_arch(_, _, _, _, _)
probe_arch(entries, deb, o, i, info) ==
    IF i > Len(entries)
    THEN [raised |-> FALSE, found |-> FALSE, info |-> info,
          entry |-> NoArch, calls |-> i - 1]
    ELSE LET url == base_url \o entries[i]
             r == get_file_info(o[i])
         IN  IF r.raised
             THEN [raised |-> TRUE, found |-> FALSE, info |-> info,
                   entry |-> NoArch, calls |-> i]
             ELSE IF get(r.info, "hash")
             THEN [raised |-> FALSE, found |-> TRUE, info |-> r.info,
                   entry |-> [info |-> r.info, file |-> deb, url |-> url],
                   calls |-> i]
             ELSE probe_arch(entries, deb, o, i + 1, r.info)

\* lines 384-400: result and fileinfo over data.keys()
RECURSIVE bin_result(_, _)
bin_result(data, i) ==
    IF i > Len(data.order) THEN <<>>
    ELSE << [hash |-> data.val[data.order[i]].info.hash,
             architecture |-> data.order[i]] >> \o bin_result(data, i + 1)

bin_path(url) == replace(url, base_url, <<>>)

RECURSIVE bin_fileinfo(_, _, _)
bin_fileinfo(data, i, fileinfo) ==
    IF i > Len(data.order) THEN fileinfo
    ELSE LET e == data.val[data.order[i]]
         IN  bin_fileinfo(data, i + 1,
                 setitem(fileinfo, e.info.hash,
                         << FileRecord(e.file, bin_path(e.url), e.info) >>))

bin_envelope(q, data) ==
    [binary_version |-> q.ver, binary |-> q.name, comment |-> "foo",
     result |-> bin_result(data, 1),
     fileinfo |-> bin_fileinfo(data, 1, NoFileinfo)]

\* lines 382-408; raised stands for the KeyError of info["status_code"]
bin_assemble(q, api_result, status_code, data, info) ==
    IF data.order # <<>>
    THEN IF ~get(info, "status_code")
         THEN [raised |-> TRUE, status_code |-> status_code,
               api_result |-> api_result]
         ELSE [raised |-> FALSE, status_code |-> info.status_code,
               api_result |-> dumps(bin_envelope(q, data))]
    ELSE [raised |-> FALSE, status_code |-> status_code,
          api_result |-> api_result]


----------------------------------------------------------------------------
(* flask_caching's SimpleCache behind @cache.cached *)

NoEntry(value) == [has |-> FALSE, expires |-> 0, value |-> value]

\* cache.get(key): the value while it has not expired, else None
cache_get(entry, t) ==
    IF entry.has /\ entry.expires > t
    THEN [found |-> TRUE, value |-> entry.value]
    ELSE [found |-> FALSE, value |-> entry.value]

\* cache.set(key, value, timeout)
cache_set(value, timeout, t) ==
    [has |-> TRUE, expires |-> t + timeout, value |-> value]

----------------------------------------------------------------------------
(* The server *)

\* a thread and the locals of the view it runs.  The other fields record
\* what the request met and did: whether snapshot.debian.org knew the
\* package when it came, whether the view was called, how download ended,
\* whether the view called get_file_info or get_repo_files, what it found
\* on the mirror, whether one of the two raised, whether the view raised;
\* and for get_bin whether it called get_file_info, and how many times it
\* ran rsync
Idle ==
    [pc |-> "idle", q |-> CHOOSE q \in Queries : TRUE,
     published |-> FALSE, ran |-> FALSE, up |-> NoDownload,
     mirror |-> FALSE, found |-> {}, aborted |-> FALSE,
     probed |-> FALSE, listed |-> 0,
     api_result |-> Dict, status_code |-> 0,
     arch |-> 1, data |-> data_init, info |-> EmptyDict,
     raised |-> FALSE, resp |-> NoResponse]

\* a finished request keeps what it answered and what it did, no locals
Finished(rq) ==
    [rq EXCEPT !.pc = "done", !.api_result = Dict, !.status_code = 0,
               !.arch = 1, !.data = data_init, !.info = EmptyDict]

Init ==
    /\ now = 0
    /\ ticks = 0
    /\ served = 0
    /\ upstream = FALSE
    /\ route \in Queries
    /\ md5sum \in IF route.kind = "src" THEN SrcContents ELSE BinContents
    /\ cache = [view |-> [q \in Queries |-> NoEntry(NoResponse)],
                all_files |-> NoEntry(<<>>)]
    /\ req = [r \in Threads |-> Idle]
    /\ clock = 0
    /\ last_request = None
    /\ dl = [r \in Threads |-> DlIdle]
    /\ calls = 0
    /\ failures = 0
    /\ cuts = 0

\* a faulty wrapper that keeps a 404 answer for the validity of a listing
Return_short404(r, rq, resp, c) ==
    /\ req' = [req EXCEPT ![r] = [Finished(rq) EXCEPT !.resp = resp]]
    /\ cache' = [c EXCEPT !.view[rq.q] =
                    cache_set(resp, IF resp.status = 404 THEN FILES_TIMEOUT
                                    ELSE VIEW_TIMEOUT, now)]

\* the view returned resp (line 344 or 410) and cached's wrapper stored it;
\* c is the cache as the view left it
Return(r, rq, resp, c) ==
    /\ req' = [req EXCEPT ![r] = [Finished(rq) EXCEPT !.resp = resp]]
    /\ cache' = [c EXCEPT !.view[rq.q] = cache_set(resp, VIEW_TIMEOUT, now)]

\* the view let an exception through: flask answers 500, nothing is stored
Raise(r, rq, c) ==
    /\ req' = [req EXCEPT ![r] = [Finished(rq) EXCEPT !.raised = TRUE]]
    /\ cache' = c

\* a GET for the route arrives at a free thread (the threads are taken in
\* their order), and @cache.cached(timeout=86400) looks it up before it
\* calls the view
Request(r, q) ==
    /\ req[r].pc \in {"idle", "done"}
    /\ \A p \in Threads : p < r => req[p].pc # "idle"
    /\ served < MaxRequests
    /\ served' = served + 1
    /\ LET rq == [Idle EXCEPT !.q = q, !.published = upstream]
           got == cache_get(cache.view[q], now)
       IN  IF got.found
           THEN req' = [req EXCEPT ![r] = [Finished(rq) EXCEPT
                                              !.resp = got.value]]
           ELSE req' = [req EXCEPT ![r] =
                          [rq EXCEPT !.pc = IF q.kind = "src" THEN "get_src"
                                            ELSE "get_bin",
                                     !.ran = TRUE]]
    /\ UNCHANGED <<now, ticks, upstream, route, md5sum, cache>>
    /\ UNCHANGED netvars

\* get_src, lines 223-345: the upstream probe, then the probes of the
\* mirror and the envelope
GetSrc(r) ==
    /\ req[r].pc = "get_src"
    /\ \E way \in get_src_table[req[r].q][md5sum][upstream] :
         LET rq == [req[r] EXCEPT !.up = way.out,
                                  !.mirror = (way.end.mirror > 0),
                                  !.found = way.end.found,
                                  !.aborted = way.end.aborted]
         IN  IF way.end.raised THEN Raise(r, rq, cache)
             ELSE Return(r, rq, way.end.resp, cache)
    /\ UNCHANGED <<now, ticks, upstream, route, md5sum, served>>
    /\ UNCHANGED netvars

\* get_bin, lines 352-363: the upstream probe
GetBin(r) ==
    /\ req[r].pc = "get_bin"
    /\ \E out \in download_outcomes(upstream) :
         LET up == upstream_probe(out)
             rq == [req[r] EXCEPT !.up = out,
                                  !.api_result = up.api_result,
                                  !.status_code = up.status_code]
         IN  IF truthy(up.api_result)
             THEN Return(r, rq, Response(up.api_result, up.status_code),
                         cache)
             ELSE /\ req' = [req EXCEPT ![r] =
                                [rq EXCEPT !.pc = "get_repo_files"]]
                  /\ UNCHANGED cache
    /\ UNCHANGED <<now, ticks, upstream, route, md5sum, served>>
    /\ UNCHANGED netvars

\* get_bin, lines 370-380 for the architecture rq.arch with the listing
\* get_repo_files returned, then the next architecture or lines 382-410
ProbeArch(r, rq0, listing, c) ==
    LET q == rq0.q
        arch == archs[rq0.arch]
        deb == deb_name(q, arch)
        entries == matching(listing, deb)
    IN  \E got \in {probe_arch(entries, deb, o, 1, rq0.info) :
                        o \in [1..Len(entries) -> FetchOutcomes(md5sum[arch])]} :
          LET data == IF got.found
                      THEN [order |-> Append(rq0.data.order, arch),
                            val |-> [rq0.data.val EXCEPT ![arch] = got.entry]]
                      ELSE rq0.data
              rq == [rq0 EXCEPT !.info = got.info, !.data = data,
                                !.probed = @ \/ got.calls > 0,
                                !.found = {data.order[i] : i \in DOMAIN data.order},
                                !.aborted = got.raised]
              a == bin_assemble(q, rq.api_result, rq.status_code,
                                rq.data, rq.info)
          IN  IF got.raised THEN Raise(r, rq, c)
              ELSE IF rq0.arch < Len(archs)
              THEN /\ req' = [req EXCEPT ![r] =
                                [rq EXCEPT !.pc = "get_repo_files",
                                           !.arch = @ + 1]]
                   /\ cache' = c
              ELSE IF a.raised THEN Raise(r, rq, c)
              ELSE Return(r, rq, Response(a.api_result, a.status_code), c)

\* line 371: the call of get_repo_files; @cache.cached(timeout=300) answers
\* it from the cache if it can
GetRepoFiles(r) ==
    /\ req[r].pc = "get_repo_files"
    /\ LET rq == [req[r] EXCEPT !.mirror = TRUE]
           got == cache_get(cache.all_files, now)
       IN  IF got.found
           THEN ProbeArch(r, rq, got.value, cache)
           ELSE /\ req' = [req EXCEPT ![r] = [rq EXCEPT !.pc = "rsync"]]
                /\ UNCHANGED cache
    /\ UNCHANGED <<now, ticks, upstream, route, md5sum, served>>
    /\ UNCHANGED netvars

\* lines 200-216: rsync fails (CalledProcessError) or lists the mirror, and
\* cached's wrapper stores the list get_repo_files returns
Rsync(r) ==
    /\ req[r].pc = "rsync"
    /\ \/ Raise(r, [req[r] EXCEPT !.aborted = TRUE, !.listed = @ + 1], cache)
       \/ \E lines \in RsyncOutputs(req[r].q) :
            LET got == repo_files_loop(lines, <<>>)
                rq == [req[r] EXCEPT !.listed = @ + 1]
            IN  IF got.raised
                THEN Raise(r, [rq EXCEPT !.aborted = TRUE], cache)
                ELSE ProbeArch(r, rq, got.files,
                               [cache EXCEPT !.all_files =
                                  cache_set(got.files, FILES_TIMEOUT, now)])
    /\ UNCHANGED <<now, ticks, upstream, route, md5sum, served>>
    /\ UNCHANGED netvars

\* snapshot.debian.org learns of the package
Publish ==
    /\ ~upstream
    /\ upstream' = TRUE
    /\ UNCHANGED <<now, ticks, route, md5sum, cache, req, served>>
    /\ UNCHANGED netvars

\* time passes: the validity of a listing, or of a cached answer
Tick(d) ==
    /\ ticks < MaxTicks
    /\ ticks' = ticks + 1
    /\ now' = now + d
    /\ UNCHANGED <<upstream, route, md5sum, cache, req, served>>
    /\ UNCHANGED netvars

\* the steps of the threads T
Serve(T) ==
    \/ \E r \in T : Request(r, route)
    \/ \E r \in T : GetSrc(r)
    \/ \E r \in T : GetBin(r)
    \/ \E r \in T : GetRepoFiles(r)
    \/ \E r \in T : Rsync(r)

Environment ==
    \/ Publish
    \/ \E d \in {FILES_TIMEOUT, VIEW_TIMEOUT} : Tick(d)

\* one request at a time
Next == Serve({1}) \/ Environment

Spec == Init /\ [][Next]_vars

\* requests served concurrently, within one instant of the clock
NextThreads == Serve(Threads)

SpecThreads == Init /\ [][NextThreads]_vars

----------------------------------------------------------------------------
(* The calls of download *)

\* a thread calls download (lines 79-84); the threads are taken in their
\* order
Download(r) ==
    /\ dl[r].pc \in {"idle", "done"}
    /\ \A p \in Threads : p < r => dl[p].pc # "idle"
    /\ calls < MaxCalls
    /\ calls' = calls + 1
    /\ dl' = [dl EXCEPT ![r] = [DlIdle EXCEPT !.pc = "perform",
                                              !.before = last_request]]
    /\ UNCHANGED <<clock, last_request, failures, cuts>>
    /\ UNCHANGED appvars

\* one turn of the loop, lines 85-172, up to a sleep, line 138 or the end;
\* faults tells whether attempts may fail in a way that is retried
Perform(r, faults) ==
    /\ dl[r].pc = "perform"
    /\ \E out \in Attempts(Len(dl[r].f)) :
         LET a == after_perform(dl[r], out, clock, last_request)
         IN  /\ retried(out) => faults /\ failures < MaxFailures
             /\ early(out) => cuts < MaxCuts
             /\ failures' = IF retried(out) THEN failures + 1 ELSE failures
             /\ cuts' = IF early(out) THEN cuts + 1 ELSE cuts
             /\ dl' = [dl EXCEPT ![r] = a.d]
             /\ clock' = a.clock
             /\ last_request' = a.last_request
    /\ UNCHANGED calls
    /\ UNCHANGED appvars

\* time.sleep(sleep_time) returns, at wake or later
Sleep(r) ==
    /\ dl[r].pc = "sleep"
    /\ clock' = IF clock < dl[r].wake THEN dl[r].wake ELSE clock
    /\ dl' = [dl EXCEPT ![r].pc = dl[r].next]
    /\ UNCHANGED <<last_request, calls, failures, cuts>>
    /\ UNCHANGED appvars

\* lines 138-139
Stamp(r) ==
    /\ dl[r].pc = "stamp"
    /\ last_request' = Time(clock)
    /\ dl' = [dl EXCEPT ![r].pc = "done", ![r].stamp = Time(clock),
                        ![r].result = Returned(dl[r].f)]
    /\ UNCHANGED <<clock, calls, failures, cuts>>
    /\ UNCHANGED appvars

\* the steps of download in the threads T
Fetch(T, faults) ==
    \/ \E r \in T : Download(r)
    \/ \E r \in T : Perform(r, faults)
    \/ \E r \in T : Sleep(r)
    \/ \E r \in T : Stamp(r)

\* the server at rest, for the calls of download taken alone
InitDownload ==
    /\ Init
    /\ route = CHOOSE q \in Queries : q.kind = "src"
    /\ md5sum = CHOOSE c \in SrcContents : TRUE

\* one call of download at a time
NextDownload == Fetch({1}, TRUE)

SpecDownload == InitDownload /\ [][NextDownload]_vars

\* calls of download in concurrent threads, no attempt failing in a way
\* that is retried
NextDownloadThreads == Fetch(Threads, FALSE)

SpecDownloadThreads == InitDownload /\ [][NextDownloadThreads]_vars

----------------------------------------------------------------------------
(* Properties of the answers *)

\* a finished request, and one whose view was called (no cached answer)
Done(r) == req[r].pc = "done"
Ran(r) == Done(r) /\ req[r].ran

\* the fallback path: download raised or returned nothing
Fallback(r) == Ran(r) /\ (req[r].up.raised \/ req[r].up.value = <<>>)

IsEmpty(resp) == resp.body.bytes = <<>> /\ resp.body.env = <<>>
IsSuccess(resp) == resp.status \in 200..299
IsNotFound(resp) == resp.status = 404 /\ IsEmpty(resp)
HasEnvelope(resp) == resp.body.env # <<>>
Envelope(resp) == resp.body.env[1]

ResultHashes(e) == {e.result[i].hash : i \in DOMAIN e.result}
Records(e) == UNION {{e.fileinfo[h][i] : i \in DOMAIN e.fileinfo[h]} :
                       h \in DOMAIN e.fileinfo}

\* an envelope with nothing missing: a result, a fileinfo list for each of
\* its hashes and for no other, and records with all their fields
IsComplete(e) ==
    /\ e.result # <<>>
    /\ \A i \in DOMAIN e.result : e.result[i].hash \in Hashes
    /\ ResultHashes(e) = keys(e.fileinfo)
    /\ \A f \in Records(e) :
         f.name # <<>> /\ f.path # <<>> /\ f.first_seen # "" /\ f.size > 0

\* C1: every request a view handles is answered, either with a success
\* status and a complete body (the upstream payload or a complete
\* envelope) or with 404 and an empty body, and the view never raises;
\* stated for the requests whose download raised and whose probes of the
\* mirror all came to an end, the ones a resolution is made of.
C1_CompleteOrNotFound ==
    \A r \in Threads :
      (Ran(r) /\ req[r].up.raised /\ ~req[r].aborted) =>
        /\ ~req[r].raised
        /\ \/ /\ IsSuccess(req[r].resp)
              /\ \/ req[r].resp.body.bytes # <<>>
                 \/ /\ HasEnvelope(req[r].resp)
                    /\ IsComplete(Envelope(req[r].resp))
           \/ IsNotFound(req[r].resp)

\* C2: a get_src request whose download raised and that found the .dsc on
\* the mirror, but neither both of orig and debian nor the native
\* tarball, is answered 404 with an empty body.
C2_DscAloneNotFound ==
    \A r \in Threads :
      (/\ Ran(r) /\ req[r].q.kind = "src"
       /\ req[r].up.raised /\ ~req[r].aborted
       /\ "dsc" \in req[r].found
       /\ "native" \notin req[r].found
       /\ ~({"orig", "debian"} \subseteq req[r].found))
      => ~req[r].raised /\ IsNotFound(req[r].resp)

\* C3: a get_src request on the fallback path that found the .dsc, the
\* native tarball and exactly one of orig and debian gets no native result:
\* it is answered 404 with an empty body.
C3_NoNativeWithPartialSplit ==
    \A r \in Threads :
      (/\ Fallback(r) /\ req[r].q.kind = "src" /\ ~req[r].aborted
       /\ {"dsc", "native"} \subseteq req[r].found
       /\ ("orig" \in req[r].found) # ("debian" \in req[r].found))
      => ~req[r].raised /\ IsNotFound(req[r].resp)

\* C4: whenever download returns, whatever bytes it returns, the answer is
\* those bytes with status 200 and the view calls neither get_file_info
\* nor get_repo_files.
C4_UpstreamVerbatim ==
    \A r \in Threads :
      (Ran(r) /\ ~req[r].up.raised)
      => /\ ~req[r].raised
         /\ req[r].resp = Response(Bytes(req[r].up.value), 200)
         /\ ~req[r].mirror

\* the architectures of a result list, in its order
RECURSIVE ResultArchs(_)
ResultArchs(result) ==
    IF result = <<>> THEN <<>>
    ELSE <<Head(result).architecture>> \o ResultArchs(Tail(result))

\* C5: a get_bin request whose download raised and that resolved at least
\* one architecture is answered 200 with an envelope whose result lists
\* exactly the resolved architectures, amd64 before all, whatever the
\* other probes answered.
C5_ResolvedArchsSucceed ==
    \A r \in Threads :
      (/\ Ran(r) /\ req[r].q.kind = "bin"
       /\ req[r].up.raised /\ ~req[r].aborted
       /\ req[r].found # {})
      => /\ ~req[r].raised
         /\ req[r].resp.status = 200
         /\ HasEnvelope(req[r].resp)
         /\ ResultArchs(Envelope(req[r].resp).result)
              = SelectSeq(archs, LAMBDA a : a \in req[r].found)

\* the case of C6: download raised, and the mirror gave the .dsc and the
\* native tarball, neither orig nor debian
NativeOnly(r) ==
    /\ Ran(r) /\ req[r].q.kind = "src"
    /\ req[r].up.raised /\ ~req[r].aborted
    /\ req[r].found = {"dsc", "native"}

\* C6: a get_src request whose download raised and that found the .dsc and
\* the native tarball, neither orig nor debian, is answered with a success
\* envelope of exactly two results, the hash of the .dsc then the hash of
\* the tarball, each hash with a fileinfo record.
C6_NativeEnvelope ==
    \A r \in Threads :
      NativeOnly(r)
      => /\ ~req[r].raised
         /\ IsSuccess(req[r].resp)
         /\ HasEnvelope(req[r].resp)
         /\ LET e == Envelope(req[r].resp)
            IN  /\ Len(e.result) = 2
                /\ e.result[1].hash = md5sum.dsc
                /\ e.result[2].hash = md5sum.native
                /\ \A i \in 1..2 : e.fileinfo[e.result[i].hash] # <<>>
                /\ e.fileinfo[md5sum.native][1].name = files(req[r].q).native[1]

\* C6 case: such a request was answered, the two files differing in content
C6_Witness ==
    \E r \in Threads :
      /\ NativeOnly(r)
      /\ req[r].resp.status = 200
      /\ HasEnvelope(req[r].resp)
      /\ md5sum.dsc # md5sum.native

\* C7: in every envelope a view answers with, the hashes of the result list
\* are exactly the keys of fileinfo, also when files share their hash.
C7_HashesAreKeys ==
    \A r \in Threads :
      (Done(r) /\ HasEnvelope(req[r].resp))
      => ResultHashes(Envelope(req[r].resp))
           = keys(Envelope(req[r].resp).fileinfo)

\* C7 case: an envelope whose result lists one hash more than once
C7_Witness ==
    \E r \in Threads :
      /\ Ran(r) /\ HasEnvelope(req[r].resp)
      /\ Cardinality(ResultHashes(Envelope(req[r].resp)))
           < Len(Envelope(req[r].resp).result)

\* C8: in every envelope a view answers with, for source and for binary
\* packages, the path of each fileinfo record begins with "/".
C8_PathsRootRelative ==
    \A r \in Threads :
      (Done(r) /\ HasEnvelope(req[r].resp))
      => \A f \in Records(Envelope(req[r].resp)) : startswith(f.path, <<"/">>)

\* C9: of two answered requests for the same route within the validity of
\* a cached answer (the clock does not advance while threads run), the one
\* coming before the other is answered or after, only one had its view
\* called, and both got the same answer.
C9_ComputedOnce ==
    \A r1, r2 \in Threads :
      (/\ r1 # r2 /\ Done(r1) /\ Done(r2)
       /\ req[r1].q = req[r2].q
       /\ ~req[r1].raised /\ ~req[r2].raised
       /\ now < VIEW_TIMEOUT)
      => /\ ~(req[r1].ran /\ req[r2].ran)
         /\ req[r1].resp = req[r2].resp

\* C10: what a view returns is stored for 86400 s whatever its status, a
\* 404 like a success; and a request that arrives while a stored 404 with
\* an empty body has not expired is answered with it, the view not being
\* called, whether or not snapshot.debian.org knows the package by then.
C10_NotFoundCached ==
    [][ /\ \A r \in Threads :
             (/\ req[r].pc \notin {"idle", "done"}
              /\ req'[r].pc = "done" /\ ~req'[r].raised)
             => cache'.view[route] =
                  [has |-> TRUE, expires |-> now + VIEW_TIMEOUT,
                   value |-> req'[r].resp]
        /\ (/\ served' = served + 1
            /\ cache.view[route].has
            /\ IsNotFound(cache.view[route].value)
            /\ now < cache.view[route].expires)
           => /\ cache' = cache
              /\ \E r \in Threads :
                   /\ \A p \in Threads \ {r} : req'[p] = req[p]
                   /\ req'[r].pc = "done"
                   /\ ~req'[r].ran
                   /\ req'[r].q = route
                   /\ req'[r].resp = cache.view[route].value ]_vars

\* C10 case: a request that came after snapshot.debian.org had learnt of
\* the package was answered the stored 404, its view not called
C10_Witness ==
    \E r \in Threads :
      /\ Done(r) /\ ~req[r].ran
      /\ req[r].published
      /\ IsNotFound(req[r].resp)
      /\ served = 2

----------------------------------------------------------------------------
(* Properties of download *)

\* C11: once an attempt of a call is answered 404 the call is over, ended
\* by MyHTTP404Exception, whichever attempt it was: no attempt follows, and
\* no sleep, the backoff sleeps taken being those before the attempts made
\* before it.
C11_NotFoundEndsDownload ==
    \A r \in Threads :
      dl[r].got404
      => /\ dl[r].pc = "done"
         /\ dl[r].result = Raised("MyHTTP404Exception")
         /\ Len(dl[r].sleeps) = dl[r].attempts - 1
         /\ dl[r].paced = 0

\* C11 case: a call whose third attempt was answered 404
C11_Witness ==
    \E r \in Threads : dl[r].got404 /\ dl[r].attempts = 3

\* 4, 16, 64, ... seconds
Schedule == <<4, 16, 64, 256, 1024, 4096, 16384, 65536, 262144>>

RECURSIVE Sum(_)
Sum(q) == IF q = <<>> THEN 0 ELSE Head(q) + Sum(Tail(q))

\* C12: a call makes at most 10 attempts; every attempt that fails in a
\* way that is retried is followed, unless it is the 10th, by a sleep of
\* 4^k seconds if it is the k-th (84 s in all before a 4th attempt), and
\* no other attempt is; after a 10th such attempt the call ends with
\* "failed too often...", which is not the failure of a 404.
C12_BoundedBackoff ==
    \A r \in Threads :
      LET d == dl[r]
      IN  /\ d.attempts <= maxretries
          /\ Len(d.sleeps) <= maxretries - 1
          /\ \A k \in 1..Len(d.sleeps) : d.sleeps[k] = 2 * Schedule[k]
          /\ Len(d.sleeps) = 3 => Sum(d.sleeps) = 2 * 84
          /\ (d.attempts > 0 /\ d.failed /\ d.attempts < maxretries)
             => /\ Len(d.sleeps) = d.attempts
                /\ d.pc \in {"sleep", "perform"}
          /\ (d.attempts > 0 /\ ~d.failed)
             => Len(d.sleeps) = d.attempts - 1
          /\ (d.failed /\ d.attempts = maxretries)
             => /\ d.pc = "done"
                /\ d.result = Raised("failed too often...")
                /\ d.result # Raised("MyHTTP404Exception")
                /\ Len(d.sleeps) = maxretries - 1

\* C12 case: a call ended by its 10th attempt failing
C12_Witness ==
    \E r \in Threads :
      /\ dl[r].attempts = maxretries
      /\ dl[r].failed
      /\ dl[r].pc = "done"

\* C13: what a call returns is the resource, whole and nothing else,
\* whatever its attempts met.
C13_ReturnsResource ==
    \A r \in Threads :
      dl[r].result.kind = "return" => dl[r].result.value = Resource

\* C14: every transfer begins at least 1.5 s after the time last_request
\* holds, the end of the request before.
C14_SpacedTransfers ==
    \A r \in Threads :
      (dl[r].attempts > 0 /\ dl[r].seen.set)
      => dl[r].began - dl[r].seen.at >= seconds_per_request

\* C15: calls in concurrent threads that return are at least 1.5 s apart,
\* by the times they give last_request.
C15_SpacedThreads ==
    \A r1, r2 \in Threads :
      (r1 # r2 /\ dl[r1].stamp.set /\ dl[r2].stamp.set)
      => \/ dl[r1].stamp.at - dl[r2].stamp.at >= seconds_per_request
         \/ dl[r2].stamp.at - dl[r1].stamp.at >= seconds_per_request

\* C16: the record get_file_info returned to get_bin, which get_bin keeps
\* in info between the architectures, holds status_code, however the fetch
\* went.
C16_StatusCodeAlways ==
    \A r \in Threads :
      (req[r].probed /\ req[r].pc \in {"get_repo_files", "rsync"})
      => get(req[r].info, "status_code")

\* C17: a get_src request in which get_file_info did not come to an end,
\* which it does when a fetch succeeds and the last-modified header is
\* missing or cannot be parsed, still ends with a complete envelope or
\* with 404 and an empty body.
C17_BadHeaderIsAbsent ==
    \A r \in Threads :
      (Ran(r) /\ req[r].q.kind = "src" /\ req[r].aborted)
      => /\ ~req[r].raised
         /\ \/ /\ IsSuccess(req[r].resp)
               /\ HasEnvelope(req[r].resp)
               /\ IsComplete(Envelope(req[r].resp))
            \/ IsNotFound(req[r].resp)

\* C18: within the 300 s a listing is valid for (the clock does not
\* advance while threads run), the requests of all threads together run
\* rsync at most once.
C18_ListedOnce ==
    now < FILES_TIMEOUT
    => \A r1, r2 \in Threads :
         r1 # r2 => req[r1].listed + req[r2].listed <= 1

\* C19: a call ended by MyHTTP404Exception or by "failed too often..." has
\* taken no pacing sleep and left last_request as it found it; when
\* last_request is not what a call found, the call has returned and
\* last_request is the time it returned at.
C19_OnlySuccessStamps ==
    \A r \in Threads :
      /\ (/\ dl[r].pc = "done"
          /\ dl[r].result.kind \in {"MyHTTP404Exception", "failed too often..."})
         => /\ dl[r].paced = 0
            /\ ~dl[r].stamp.set
            /\ last_request = dl[r].before
      /\ (dl[r].pc # "idle" /\ last_request # dl[r].before)
         => /\ dl[r].pc = "done"
            /\ dl[r].result.kind = "return"
            /\ last_request = dl[r].stamp

\* C19 case: a call answered 404 less than 1.5 s after the call before it
\* returned
C19_Witness ==
    \E r \in Threads :
      /\ dl[r].pc = "done"
      /\ dl[r].result = Raised("MyHTTP404Exception")
      /\ dl[r].before.set
      /\ clock - dl[r].before.at < seconds_per_request

====
